---- MODULE Spec2Model ----
(***************************************************************************)
(* Model of the interactive session of the OpenMVS viewer                  *)
(* (apps/Viewer/Scene.cpp, Scene.h, Image.cpp): the job queue and its      *)
(* single worker thread, the two octrees rebuilt by WORK jobs, the         *)
(* deferred image slots, the pick resolver Scene::OnCastRay and the        *)
(* selection-derived geometry operations.                                  *)
(*                                                                         *)
(* Conventions                                                             *)
(*  - indices are 1-based (the code's are 0-based); NO_ID / NO_IDX is 0.   *)
(*  - time is counted in ticks of 0.1 s, so timeClick = 2, timeDblClick=3. *)
(*  - coordinates are 1-D integers, all multiples of 100, so that a margin *)
(*    of 3% of an extent is an integer.                                    *)
(*  - a geometry collection is the sequence of the identities of its       *)
(*    elements; removing elements shifts the indices of the later ones.    *)
(***************************************************************************)
EXTENDS Integers, Sequences, FiniteSets, TLC

\* ------------------------------------------------------------------ bounds
NPoints == 2      \* points of the largest scene Open can load
NFaces == 1       \* faces of the largest scene Open can load
NImages == 2      \* MVS images of a loaded scene
NRays == 4        \* rays the input layer can cast
MaxJobs == 3      \* jobs enqueued in one run
MaxTime == 3      \* last tick of the clock
NCropPoints == 4  \* points of the scenes CropToPoints is applied to
MaxMinViews == 3  \* largest minimum-views threshold configured
NIdxImages == 3   \* MVS images of the scenes ImageIdxMVS2Viewer is called on
MaxBuffers == 2   \* buffers installed in one image slot, called by itself
NCropImages == 4  \* images of the largest of these scenes
MaxMinPoints == 3 \* largest "Min Points" threshold entered

\* ------------------------------------------------------- program constants
NO_ID == 0
timeClick == 2
timeDblClick == 3
FLT_MAX == 1000

VARIABLES
    window,            \* "none" | "valid" | "released": Scene::window
    points,            \* scene.pointcloud.points
    faces,             \* scene.mesh.faces
    sceneImages,       \* scene.images: sequence of IsValid() flags
    geometryName,      \* whether geometryName is not empty: the geometry
                       \* was loaded from a file of its own
    geometryMesh,      \* whether that geometry is a mesh
    images,            \* Scene::images: viewer images [idx, pImage, texture]
                       \* with the history of their buffers: made, taken,
                       \* freed count the buffers AssignImage installed,
                       \* SetImage uploaded and ReleaseImage deleted
    obb,               \* scene.obb, the region of interest [lo, hi]
    octPoints,         \* Scene::octPoints, the live point index
    octMesh,           \* Scene::octMesh, the live mesh index
    events,            \* Scene::events, the job queue
    wpc,               \* position of the worker thread (Scene::thread)
    wevt,              \* the event the worker holds (evt in ThreadWorker)
    wOct,              \* the octree local to EVTComputeOctree::Run
    nEnqueued,         \* history: number of AddEvent calls so far
    executed,          \* history: ordinals of the events the worker took
    selPoints,         \* selection controller: selected point indices
    selFaces,          \* selection controller: selected face indices
    selectionType,     \* window.selectionType
    selectionIdx,      \* window.selectionIdx
    selectionPoints,   \* window.selectionPoints[0..3]
    selectionTime,     \* window.selectionTime
    selectionTimeClick,\* window.selectionTimeClick
    selectedNeighborCamera, \* window.selectedNeighborCamera
    showMesh,          \* window.showMesh
    showPointCloud,    \* window.showPointCloud
    minViews,          \* window.minViews
    camViewID,         \* camera view mode: current camera, NO_ID when off
    uiOut,             \* notifications sent by the last OnCastRay call
    subScene,          \* the value the last CropToPoints call returned
    sceneBounds,       \* what CropToBounds last passed to SetSceneBounds
    slotCall,          \* the last operation called on an image slot by
                       \* itself: [op, idx, before, ret]
    saveCall,          \* the last call of Save: the value returned and the
                       \* geometry before the call
    pressTime,         \* glfwGetTime() at the last GLFW_PRESS delivered to
                       \* OnCastRay
    idxCall,           \* the last call of ImageIdxMVS2Viewer by itself:
                       \* [op, idx, ret]
    clock,             \* glfwGetTime(), in ticks
    fault              \* "none", or the invalid access the program made

geomFileVars == <<geometryName, geometryMesh>>
sceneVars == <<points, faces, sceneImages, geomFileVars, images, obb>>
octVars == <<octPoints, octMesh>>
queueVars == <<events, nEnqueued>>
workerVars == <<wpc, wevt, wOct, executed>>
bulkVars == <<selPoints, selFaces>>
recordVars == <<selectionType, selectionIdx, selectionPoints, selectionTime,
                selectedNeighborCamera>>
showVars == <<showMesh, showPointCloud, minViews>>
outVars == <<uiOut, subScene, sceneBounds, slotCall, saveCall, pressTime,
             idxCall>>
vars == <<window, sceneVars, octVars, queueVars, workerVars, bulkVars,
          recordVars, selectionTimeClick, showVars, camViewID, outVars, clock,
          fault>>

\* ----------------------------------------------------------------- helpers
Range(s) == {s[i] : i \in 1..Len(s)}
Iota(n) == [i \in 1..n |-> i]
Min(S) == CHOOSE x \in S : \A y \in S : x <= y
Max(S) == CHOOSE x \in S : \A y \in S : x >= y

\* cList::RemoveAt over a sorted index list: the elements whose index is not
\* in idxs, in their order
RemoveIndices(s, idxs) ==
    LET keep == {i \in 1..Len(s) : i \notin idxs}
        F[n \in 0..Len(s)] ==
            IF n = 0 THEN <<>>
            ELSE IF n \in keep THEN Append(F[n-1], s[n]) ELSE F[n-1]
    IN F[Len(s)]

\* positions
PointPos(p) == 200 * p
FaceVertex(f, k) == 200 * f + 100 * (k - 2)
FaceVerts(f) == {FaceVertex(f, k) : k \in 1..3}

\* MVS::Scene::IsEmpty, Scene::IsValid, Scene::IsOpen, Scene::IsOctreeValid
SceneIsEmpty == points = <<>> /\ faces = <<>>
IsValid == window = "valid"
IsOpen == IsValid /\ ~SceneIsEmpty

\* An octree has two members: the item array it refers to and the cell
\* indices built over it.  Each holds the snapshot of the geometry it was
\* built from.
EmptyOct == [items |-> <<>>, indices |-> <<>>]
MkOct(geom) == [items |-> geom, indices |-> geom]
OctIsEmpty(o) == o.indices = <<>>
OctComplete(o) == o.items = o.indices
IsOctreeValid == ~OctIsEmpty(octPoints) \/ ~OctIsEmpty(octMesh)

ZeroPt == 0
NoOBB == [lo |-> 0, hi |-> 0]
\* SetSceneBounds has not been called by CropToBounds
NoBounds == [center |-> 0, size |-> 0]
\* MVS::Scene(), the empty scene CropToPoints returns when it fails
EmptyScene == [empty |-> TRUE, images |-> {}]
\* CropToPoints has not been called
NotCalled == [empty |-> TRUE, images |-> {NO_ID}]
IsBounded == obb.hi > obb.lo

\* ------------------------------------------------------------- job queue
NoEvent == [id |-> "none"]
EvtClose == [id |-> "EVT_CLOSE"]
EvtLoadImage(idx) == [id |-> "EVT_JOB", job |-> "LoadImage", idx |-> idx]
\* snap is history: the geometry at the time the job was created
EvtComputeOctree(snap) ==
    [id |-> "EVT_JOB", job |-> "ComputeOctree", snap |-> snap]

CanEnqueue == nEnqueued < MaxJobs
\* EventQueue::AddEvent: append at the tail
AddEvent(q, e) == Append(q, e)
\* EventQueue::GetEvent: the head, once there is one
HasEvent(q) == q # <<>>
GetEvent(q) == Head(q)
AfterGetEvent(q) == Tail(q)
Stamp(e, n) == [ord |-> n, evt |-> e]

isRunning == wpc \notin {"none", "done"}

\* the program runs until it makes an invalid access
Running == fault = "none"

\* Save has not been called
NoIdxCall == [op |-> "none", idx |-> NO_ID, ret |-> NO_ID]
NoSave == [ret |-> "none", points |-> <<>>, faces |-> <<>>]
\* no slot operation called yet
NoSlot == [idx |-> NO_ID, pImage |-> "IMG_NULL", texture |-> 0, made |-> 0,
           taken |-> 0, freed |-> 0]
NoCall == [op |-> "none", idx |-> NO_ID, before |-> NoSlot, ret |-> FALSE]

\* ------------------------------------------------------------------- Init
Init ==
    /\ window = "none"
    /\ points = <<>> /\ faces = <<>> /\ sceneImages = <<>> /\ images = <<>>
    /\ geometryName = FALSE /\ geometryMesh = FALSE
    /\ obb = NoOBB
    /\ octPoints = EmptyOct /\ octMesh = EmptyOct
    /\ events = <<>> /\ nEnqueued = 0
    /\ wpc = "none" /\ wevt = NoEvent /\ wOct = EmptyOct /\ executed = <<>>
    /\ selPoints = {} /\ selFaces = {}
    /\ selectionType = "SEL_NA" /\ selectionIdx = NO_ID
    /\ selectionPoints = <<ZeroPt, ZeroPt, ZeroPt, ZeroPt>>
    /\ selectionTime = 0 /\ selectionTimeClick = 0
    /\ selectedNeighborCamera = NO_ID
    /\ showMesh = TRUE /\ showPointCloud = TRUE
    /\ minViews = 1
    /\ camViewID = NO_ID
    /\ uiOut = {}
    /\ subScene = NotCalled
    /\ sceneBounds = NoBounds
    /\ slotCall = NoCall
    /\ saveCall = NoSave
    /\ pressTime = 0
    /\ idxCall = NoIdxCall
    /\ clock = 0
    /\ fault = "none"

\* ------------------------------------------------------ session lifecycle
\* the scene files Open can be given: a file that does not load, or a scene
\* of np points, nf faces and NImages images of which `valid` are valid
BadFile == [ok |-> FALSE, named |-> TRUE]
NoFile == [ok |-> FALSE, named |-> FALSE]
Files ==
    {BadFile,
     [ok |-> TRUE, np |-> NPoints, nf |-> NFaces,
      valid |-> [i \in 1..NImages |-> TRUE]],
     [ok |-> TRUE, np |-> NPoints, nf |-> 0,
      valid |-> [i \in 1..NImages |-> i = NImages]],
     [ok |-> TRUE, np |-> 0, nf |-> 0,
      valid |-> [i \in 1..NImages |-> TRUE]]}

\* Window::Reset: the selection state of a freshly constructed window
WindowReset ==
    /\ selPoints' = {} /\ selFaces' = {}
    /\ selectionType' = "SEL_NA" /\ selectionIdx' = NO_ID
    /\ selectedNeighborCamera' = NO_ID
    /\ camViewID' = NO_ID
    /\ UNCHANGED <<selectionPoints, selectionTime>>

\* the viewer images Open builds: the valid MVS images, in index order
ViewerImages(valid) ==
    LET F[n \in 0..Len(valid)] ==
            IF n = 0 THEN <<>>
            ELSE IF valid[n]
                 THEN Append(F[n-1], [idx |-> n, pImage |-> "IMG_NULL",
                                      texture |-> 0, made |-> 0,
                                      taken |-> 0, freed |-> 0])
                 ELSE F[n-1]
    IN F[Len(valid)]

\* Scene::Reset followed by the body of Scene::Open
OpenBody(f) ==
    /\ octPoints' = EmptyOct /\ octMesh' = EmptyOct
    /\ WindowReset
    /\ obb' = NoOBB
    /\ IF ~f.ok
       THEN /\ points' = <<>> /\ faces' = <<>>
            /\ sceneImages' = <<>> /\ images' = <<>>
            /\ geometryName' = FALSE /\ UNCHANGED geometryMesh
            /\ UNCHANGED queueVars
       ELSE /\ points' = Iota(f.np) /\ faces' = Iota(f.nf)
            /\ sceneImages' = [i \in 1..Len(f.valid) |-> f.valid[i]]
            /\ images' = ViewerImages(f.valid)
            /\ IF "geom" \in DOMAIN f
               THEN /\ geometryName' = TRUE
                    /\ geometryMesh' = (f.geom = "mesh")
               ELSE /\ geometryName' = FALSE
                    /\ UNCHANGED geometryMesh
            /\ IF f.np = 0 /\ f.nf = 0
               THEN UNCHANGED queueVars
               ELSE /\ CanEnqueue
                    /\ events' = AddEvent(events,
                           Stamp(EvtComputeOctree(<<Iota(f.np), Iota(f.nf)>>),
                                 nEnqueued + 1))
                    /\ nEnqueued' = nEnqueued + 1

Initialize(f) ==
    /\ Running
    /\ window = "none"
    /\ window' = "valid"
    /\ wpc' = "wait"
    /\ IF f = NoFile THEN UNCHANGED <<sceneVars, octVars, queueVars, bulkVars,
                                  recordVars, camViewID>>
                 ELSE OpenBody(f)
    /\ UNCHANGED <<wevt, wOct, executed, selectionTimeClick, showVars, outVars,
                   clock, fault>>

Open(f) ==
    /\ Running
    /\ IsValid
    /\ OpenBody(f)
    /\ UNCHANGED <<window, workerVars, selectionTimeClick, showVars, outVars,
                   clock, fault>>

\* Scene::Release (the destructor)
Release ==
    /\ Running
    /\ window # "released"
    /\ IF ~isRunning
       THEN /\ events' = AddEvent(events, Stamp(EvtClose, nEnqueued + 1))
            /\ nEnqueued' = nEnqueued + 1
       ELSE UNCHANGED queueVars
    /\ octPoints' = EmptyOct /\ octMesh' = EmptyOct
    /\ WindowReset
    /\ points' = <<>> /\ faces' = <<>> /\ sceneImages' = <<>> /\ images' = <<>>
    /\ geometryName' = FALSE /\ UNCHANGED geometryMesh
    /\ obb' = NoOBB
    /\ window' = "released"
    /\ UNCHANGED <<workerVars, selectionTimeClick, showVars, outVars, clock,
                   fault>>

\* ------------------------------------------------------------ the worker
\* a variant of the worker loop that takes the newest event of the queue
WorkerGetNewestEvent ==
    /\ Running
    /\ wpc = "wait"
    /\ HasEvent(events)
    /\ LET e == events[Len(events)] IN
        /\ events' = SubSeq(events, 1, Len(events) - 1)
        /\ executed' = Append(executed, e.ord)
        /\ wevt' = e.evt
        /\ wpc' = IF e.evt.id = "EVT_CLOSE" THEN "done"
                  ELSE IF e.evt.job = "ComputeOctree" THEN "oct_mesh"
                  ELSE "load"
    /\ UNCHANGED <<window, sceneVars, octVars, nEnqueued, wOct, bulkVars,
                   recordVars, selectionTimeClick, showVars, camViewID, outVars,
                   clock, fault>>

\* Scene::ThreadWorker: take the next event and dispatch on its id
WorkerGetEvent ==
    /\ Running
    /\ wpc = "wait"
    /\ HasEvent(events)
    /\ LET e == GetEvent(events) IN
        /\ events' = AfterGetEvent(events)
        /\ executed' = Append(executed, e.ord)
        /\ wevt' = e.evt
        /\ wpc' = IF e.evt.id = "EVT_CLOSE" THEN "done"
                  ELSE IF e.evt.job = "ComputeOctree" THEN "oct_mesh"
                  ELSE "load"
    /\ UNCHANGED <<window, sceneVars, octVars, nEnqueued, wOct, bulkVars,
                   recordVars, selectionTimeClick, showVars, camViewID, outVars,
                   clock, fault>>

\* TOctree::Swap exchanges the members of two octrees one after the other,
\* with nothing that keeps a reader of the live octree away meanwhile; the
\* order in which a reader sees the members change is not determined
Members == {"items", "indices"}
SwapMember(a, b, m) ==
    IF m = "items" THEN [a EXCEPT !.items = b.items]
    ELSE [a EXCEPT !.indices = b.indices]
OtherMember(m) == IF m = "items" THEN "indices" ELSE "items"

workerFrame == <<window, sceneVars, queueVars, wevt, executed, bulkVars,
                 recordVars, selectionTimeClick, showVars, camViewID, outVars,
                 clock, fault>>

\* what the job builds the mesh octree from: scene.mesh, as it is now
MeshOctreeSource == faces
\* what the job builds the point octree from: scene.pointcloud, as it is now
PointsOctreeSource == points

\* EVTComputeOctree::Run: build the mesh octree
OctMeshBuild ==
    /\ Running
    /\ wpc = "oct_mesh"
    /\ IF faces # <<>>
       THEN wOct' = MkOct(MeshOctreeSource) /\ wpc' = "oct_mesh_swap"
       ELSE wOct' = wOct /\ wpc' = "oct_points"
    /\ UNCHANGED <<workerFrame, octVars>>

\* pScene->octMesh.Swap(octMesh): the first member, then the other
OctMeshSwapFirst(m) ==
    /\ Running
    /\ wpc = "oct_mesh_swap"
    /\ octMesh' = SwapMember(octMesh, wOct, m)
    /\ wOct' = SwapMember(wOct, octMesh, m)
    /\ wpc' = IF m = "items" THEN "oct_mesh_swap_indices"
              ELSE "oct_mesh_swap_items"
    /\ UNCHANGED <<workerFrame, octPoints>>

OctMeshSwapRest ==
    /\ Running
    /\ wpc \in {"oct_mesh_swap_indices", "oct_mesh_swap_items"}
    /\ LET m == IF wpc = "oct_mesh_swap_items" THEN "items" ELSE "indices"
       IN octMesh' = SwapMember(octMesh, wOct, m)
    /\ wOct' = EmptyOct
    /\ wpc' = "oct_points"
    /\ UNCHANGED <<workerFrame, octPoints>>

\* EVTComputeOctree::Run: build the point octree
OctPointsBuild ==
    /\ Running
    /\ wpc = "oct_points"
    /\ IF points # <<>>
       THEN wOct' = MkOct(PointsOctreeSource) /\ wpc' = "oct_points_swap"
                /\ wevt' = wevt
       ELSE wOct' = wOct /\ wpc' = "wait" /\ wevt' = NoEvent
    /\ UNCHANGED <<window, sceneVars, queueVars, executed, bulkVars,
                   recordVars, selectionTimeClick, showVars, camViewID, outVars,
                   clock, fault, octVars>>

\* pScene->octPoints.Swap(octPoints): the first member, then the other
OctPointsSwapFirst(m) ==
    /\ Running
    /\ wpc = "oct_points_swap"
    /\ octPoints' = SwapMember(octPoints, wOct, m)
    /\ wOct' = SwapMember(wOct, octPoints, m)
    /\ wpc' = IF m = "items" THEN "oct_points_swap_indices"
              ELSE "oct_points_swap_items"
    /\ UNCHANGED <<workerFrame, octMesh>>

OctPointsSwapRest ==
    /\ Running
    /\ wpc \in {"oct_points_swap_indices", "oct_points_swap_items"}
    /\ LET m == IF wpc = "oct_points_swap_items" THEN "items" ELSE "indices"
       IN octPoints' = SwapMember(octPoints, wOct, m)
    /\ wOct' = EmptyOct
    /\ wpc' = "wait" /\ wevt' = NoEvent
    /\ UNCHANGED <<window, sceneVars, queueVars, executed, bulkVars,
                   recordVars, selectionTimeClick, showVars, camViewID, outVars,
                   clock, fault, octMesh>>

\* the states of an image slot: pImage is IMG_NULL (EMPTY), IMG_LOADING
\* (LOADING) or the address of a buffer (READY)
IsImageEmpty(img) == img.pImage = "IMG_NULL"
IsImageLoading(img) == img.pImage = "IMG_LOADING"
IsImageValid(img) == img.pImage = "IMG_VALID"

\* variant: the buffer is deleted without asking whether there is one
ReleaseImageUnchecked(img) ==
    [img EXCEPT !.pImage = "IMG_NULL", !.freed = @ + 1]

\* Image::ReleaseImage
ReleaseImage(img) ==
    IF IsImageValid(img)
    THEN [img EXCEPT !.pImage = "IMG_NULL", !.freed = @ + 1]
    ELSE img

\* Image::SetImageLoading, past its assertion
SetImageLoading(img) == [img EXCEPT !.pImage = "IMG_LOADING"]

\* Image::AssignImage, past its assertion: the new buffer replaces whatever
\* the slot held
AssignImage(img) == [img EXCEPT !.pImage = "IMG_VALID", !.made = @ + 1]

\* Image::SetImage: upload the buffer as the slot's texture
SetImage(img) == [img EXCEPT !.texture = 1, !.taken = @ + 1]

\* Image::Release: the texture is deleted, then the buffer
ImageRelease(img) == ReleaseImage([img EXCEPT !.texture = 0])

\* variant: the buffer is uploaded and stays in the slot
TransferImageOnKeeping(img) ==
    IF ~IsImageValid(img)
    THEN [ret |-> FALSE, img |-> img]
    ELSE [ret |-> TRUE, img |-> SetImage(img)]

\* Image::TransferImage: the value returned and the slot afterwards
TransferImageOn(img) ==
    IF ~IsImageValid(img)
    THEN [ret |-> FALSE, img |-> img]
    ELSE [ret |-> TRUE, img |-> ReleaseImage(SetImage(img))]

\* a variant of the load job in which a failed decode ends the worker loop
LoadImageRunFatal(decoded) ==
    /\ Running
    /\ wpc = "load"
    /\ IF wevt.idx > Len(images)
       THEN /\ fault' = "EVTLoadImage: images[idx] out of range"
            /\ UNCHANGED images
       ELSE IF ~decoded
       THEN UNCHANGED <<images, fault>>
       ELSE \/ /\ ~IsImageLoading(images[wevt.idx])
               /\ fault' = "AssignImage: ASSERT(IsImageLoading())"
               /\ UNCHANGED images
            \/ /\ images' = [images EXCEPT ![wevt.idx] = AssignImage(@)]
               /\ UNCHANGED fault
    /\ wpc' = (IF wevt.idx <= Len(images) /\ ~decoded THEN "done" ELSE "wait")
    /\ wevt' = NoEvent
    /\ UNCHANGED <<window, points, faces, sceneImages, geomFileVars, obb,
                   octVars,
                   queueVars, wOct, executed, bulkVars, recordVars,
                   selectionTimeClick, showVars, camViewID, outVars, clock>>

\* EVTLoadImage::Run; decoded is the result of MVS::Image::ReloadImage
LoadImageRun(decoded) ==
    /\ Running
    /\ wpc = "load"
    /\ IF wevt.idx > Len(images)
       THEN /\ fault' = "EVTLoadImage: images[idx] out of range"
            /\ UNCHANGED images
       ELSE IF ~decoded
       THEN UNCHANGED <<images, fault>>
       ELSE \/ /\ ~IsImageLoading(images[wevt.idx])
               /\ fault' = "AssignImage: ASSERT(IsImageLoading())"
               /\ UNCHANGED images
            \/ /\ images' = [images EXCEPT ![wevt.idx] = AssignImage(@)]
               /\ UNCHANGED fault
    /\ wpc' = "wait" /\ wevt' = NoEvent
    /\ UNCHANGED <<window, points, faces, sceneImages, geomFileVars, obb,
                   octVars,
                   queueVars, wOct, executed, bulkVars, recordVars,
                   selectionTimeClick, showVars, camViewID, outVars, clock>>

\* --------------------------------------------------------- image slots
camEffectVars == <<images, events, nEnqueued, camViewID, fault>>

\* variant: a load is requested even while one is outstanding
OnSetCameraViewModeBodyReloading(camID) ==
    IF ~IsOpen \/ camID < 1 \/ camID > Len(images)
    THEN UNCHANGED camEffectVars
    ELSE /\ camViewID' = camID
         /\ IF images[camID].texture = 0
            THEN \/ /\ ~IsImageEmpty(images[camID])
                    /\ fault' = "SetImageLoading: ASSERT(IsImageEmpty())"
                    /\ UNCHANGED <<images, events, nEnqueued>>
                 \/ /\ CanEnqueue
                    /\ images' = [images EXCEPT ![camID] = SetImageLoading(@)]
                    /\ events' = AddEvent(events,
                           Stamp(EvtLoadImage(camID), nEnqueued + 1))
                    /\ nEnqueued' = nEnqueued + 1
                    /\ UNCHANGED fault
            ELSE UNCHANGED <<images, events, nEnqueued, fault>>

\* Scene::OnSetCameraViewMode, also the callback of Camera::SetCameraViewMode
OnSetCameraViewModeBody(camID) ==
    IF ~IsOpen \/ camID < 1 \/ camID > Len(images)
    THEN UNCHANGED camEffectVars
    ELSE /\ camViewID' = camID
         /\ IF images[camID].texture = 0 /\ ~IsImageLoading(images[camID])
            THEN \/ /\ ~IsImageEmpty(images[camID])
                    /\ fault' = "SetImageLoading: ASSERT(IsImageEmpty())"
                    /\ UNCHANGED <<images, events, nEnqueued>>
                 \/ /\ CanEnqueue
                    /\ images' = [images EXCEPT ![camID] = SetImageLoading(@)]
                    /\ events' = AddEvent(events,
                           Stamp(EvtLoadImage(camID), nEnqueued + 1))
                    /\ nEnqueued' = nEnqueued + 1
                    /\ UNCHANGED fault
            ELSE UNCHANGED <<images, events, nEnqueued, fault>>

OnSetCameraViewMode(camID) ==
    /\ Running
    /\ IsValid
    /\ OnSetCameraViewModeBody(camID)
    /\ UNCHANGED <<window, points, faces, sceneImages, geomFileVars, obb,
                   octVars,
                   workerVars, bulkVars, recordVars, selectionTimeClick,
                   showVars, outVars, clock>>

\* Image::TransferImage, polled by the rendering loop
TransferImage(i) ==
    /\ Running
    /\ IsValid
    /\ i \in 1..Len(images)
    /\ TransferImageOn(images[i]).ret
    /\ images' = [images EXCEPT ![i] = TransferImageOn(@).img]
    /\ UNCHANGED <<window, points, faces, sceneImages, geomFileVars, obb,
                   octVars,
                   queueVars, workerVars, bulkVars, recordVars,
                   selectionTimeClick, showVars, camViewID, outVars, clock,
                   fault>>

\* ------------------------------------- the operations of an image slot,
\* each called by itself on slot i, in whatever state the slot is
Called(op, i, ret) ==
    [op |-> op, idx |-> i, before |-> images[i], ret |-> ret]

slotFrame == <<window, points, faces, sceneImages, geomFileVars, obb,
               octVars, queueVars,
               workerVars, bulkVars, recordVars, selectionTimeClick,
               showVars, camViewID, uiOut, subScene, sceneBounds, saveCall,
               pressTime, idxCall,
               clock>>

\* variant: the call on a slot that is not EMPTY returns without a word
CallSetImageLoadingRefusing(i) ==
    /\ Running
    /\ IsValid
    /\ i \in 1..Len(images)
    /\ slotCall' = Called("SetImageLoading", i, FALSE)
    /\ images' = [images EXCEPT
                     ![i] = IF IsImageEmpty(@) THEN SetImageLoading(@) ELSE @]
    /\ UNCHANGED fault
    /\ UNCHANGED slotFrame

\* Image::SetImageLoading: the assertion stops a build that has it, a
\* build without it goes on
CallSetImageLoading(i) ==
    /\ Running
    /\ IsValid
    /\ i \in 1..Len(images)
    /\ slotCall' = Called("SetImageLoading", i, FALSE)
    /\ \/ /\ ~IsImageEmpty(images[i])
          /\ fault' = "SetImageLoading: ASSERT(IsImageEmpty())"
          /\ UNCHANGED images
       \/ /\ images' = [images EXCEPT ![i] = SetImageLoading(@)]
          /\ UNCHANGED fault
    /\ UNCHANGED slotFrame

\* Image::AssignImage, likewise
CallAssignImage(i) ==
    /\ Running
    /\ IsValid
    /\ i \in 1..Len(images)
    /\ images[i].made < MaxBuffers
    /\ slotCall' = Called("AssignImage", i, FALSE)
    /\ \/ /\ ~IsImageLoading(images[i])
          /\ fault' = "AssignImage: ASSERT(IsImageLoading())"
          /\ UNCHANGED images
       \/ /\ images' = [images EXCEPT ![i] = AssignImage(@)]
          /\ UNCHANGED fault
    /\ UNCHANGED slotFrame

\* Image::TransferImage, whatever the slot holds
CallTransferImage(i) ==
    /\ Running
    /\ IsValid
    /\ i \in 1..Len(images)
    /\ slotCall' = Called("TransferImage", i, TransferImageOn(images[i]).ret)
    /\ images' = [images EXCEPT ![i] = TransferImageOn(@).img]
    /\ UNCHANGED fault
    /\ UNCHANGED slotFrame

\* Image::ReleaseImage
CallReleaseImage(i) ==
    /\ Running
    /\ IsValid
    /\ i \in 1..Len(images)
    /\ slotCall' = Called("ReleaseImage", i, FALSE)
    /\ images' = [images EXCEPT ![i] = ReleaseImage(@)]
    /\ UNCHANGED fault
    /\ UNCHANGED slotFrame

\* Image::Release
CallRelease(i) ==
    /\ Running
    /\ IsValid
    /\ i \in 1..Len(images)
    /\ slotCall' = Called("Release", i, FALSE)
    /\ images' = [images EXCEPT ![i] = ImageRelease(@)]
    /\ UNCHANGED fault
    /\ UNCHANGED slotFrame

\* ------------------------------------------ selection-derived operations
hasSelection == selPoints # {} \/ selFaces # {}

\* the selection controller's region selection (input of the session)
SetSelection(ps, fs) ==
    /\ Running
    /\ IsOpen
    /\ ps \subseteq 1..Len(points) /\ fs \subseteq 1..Len(faces)
    /\ <<ps, fs>> # <<selPoints, selFaces>>
    /\ selPoints' = ps /\ selFaces' = fs
    /\ UNCHANGED <<window, sceneVars, octVars, queueVars, workerVars,
                   recordVars, selectionTimeClick, showVars, camViewID, outVars,
                   clock, fault>>

\* a variant of UpdateGeometryAfterModification that keeps the live octrees
\* while the rebuild job is pending
UpdateGeometryKeepingOctrees(pts, fcs) ==
    /\ UNCHANGED octVars
    /\ IF pts = <<>> /\ fcs = <<>>
       THEN UNCHANGED queueVars
       ELSE /\ CanEnqueue
            /\ events' = AddEvent(events,
                   Stamp(EvtComputeOctree(<<pts, fcs>>), nEnqueued + 1))
            /\ nEnqueued' = nEnqueued + 1
    /\ selPoints' = {} /\ selFaces' = {}

\* a variant of UpdateGeometryAfterModification that enqueues the rebuild job
\* whether or not geometry is left
UpdateGeometryAlwaysRebuilding(pts, fcs) ==
    /\ octPoints' = EmptyOct /\ octMesh' = EmptyOct
    /\ CanEnqueue
    /\ events' = AddEvent(events,
           Stamp(EvtComputeOctree(<<pts, fcs>>), nEnqueued + 1))
    /\ nEnqueued' = nEnqueued + 1
    /\ selPoints' = {} /\ selFaces' = {}

\* Scene::UpdateGeometryAfterModification, for the geometry pts, fcs
UpdateGeometryAfterModification(pts, fcs) ==
    /\ octPoints' = EmptyOct /\ octMesh' = EmptyOct
    /\ IF pts = <<>> /\ fcs = <<>>
       THEN UNCHANGED queueVars
       ELSE /\ CanEnqueue
            /\ events' = AddEvent(events,
                   Stamp(EvtComputeOctree(<<pts, fcs>>), nEnqueued + 1))
            /\ nEnqueued' = nEnqueued + 1
    /\ selPoints' = {} /\ selFaces' = {}

\* Scene::RemoveSelectedGeometry
RemoveSelectedGeometry ==
    /\ Running
    /\ IsValid
    /\ hasSelection
    /\ LET dirtyP == points # <<>> /\ selPoints # {}
           dirtyF == faces # <<>> /\ selFaces # {}
           pts == IF dirtyP THEN RemoveIndices(points, selPoints) ELSE points
           fcs == IF dirtyF THEN RemoveIndices(faces, selFaces) ELSE faces
       IN /\ points' = pts /\ faces' = fcs
          /\ IF dirtyP \/ dirtyF
             THEN UpdateGeometryAfterModification(pts, fcs)
             ELSE UNCHANGED <<octVars, queueVars, bulkVars>>
    /\ UNCHANGED <<window, sceneImages, geomFileVars, images, obb,
                   workerVars, recordVars,
                   selectionTimeClick, showVars, camViewID, outVars, clock,
                   fault>>

\* PointCloud::RemovePointsOutside, Mesh::RemoveFacesOutside
InBox(box, x) == box.lo <= x /\ x <= box.hi
PointsInside(pts, box) == SelectSeq(pts, LAMBDA p : InBox(box, PointPos(p)))
FacesInside(fcs, box) ==
    SelectSeq(fcs, LAMBDA f : \A v \in FaceVerts(f) : InBox(box, v))

\* a variant of CropToBounds that crops whether or not an ROI is active
CropToBoundsAlways ==
    /\ Running
    /\ IsOpen
    /\ points' = PointsInside(points, obb)
    /\ faces' = FacesInside(faces, obb)
    /\ sceneBounds' = [center |-> (obb.lo + obb.hi) \div 2,
                       size |-> obb.hi - obb.lo]
    /\ UNCHANGED <<window, sceneImages, geomFileVars, images, obb, octVars,
                   queueVars,
                   workerVars, bulkVars, recordVars, selectionTimeClick,
                   showVars, camViewID, uiOut, subScene, slotCall, saveCall,
                   pressTime, idxCall,
                   clock, fault>>

\* Scene::CropToBounds
CropToBounds ==
    /\ Running
    /\ IsOpen
    /\ IsBounded
    /\ points' = PointsInside(points, obb)
    /\ faces' = FacesInside(faces, obb)
    /\ sceneBounds' = [center |-> (obb.lo + obb.hi) \div 2,
                       size |-> obb.hi - obb.lo]
    /\ UNCHANGED <<window, sceneImages, geomFileVars, images, obb, octVars,
                   queueVars,
                   workerVars, bulkVars, recordVars, selectionTimeClick,
                   showVars, camViewID, uiOut, subScene, slotCall, saveCall,
                   pressTime, idxCall,
                   clock, fault>>

\* AABB of a non-empty set of positions, and its enlargement by 3% of its
\* largest extent
AABBOf(P) == [lo |-> Min(P), hi |-> Max(P)]
\* a variant of the margin: 3% of the extent, but never less than 1
MarginAtLeastOne(box) ==
    IF box.hi = box.lo THEN 1 ELSE ((box.hi - box.lo) * 3) \div 100
Margin(box) == ((box.hi - box.lo) * 3) \div 100
Enlarge(box, m) == [lo |-> box.lo - m, hi |-> box.hi + m]

\* Scene::TogleSceneBox
TogleSceneBox ==
    /\ Running
    /\ IsOpen
    /\ obb' = IF IsBounded THEN NoOBB
              ELSE IF faces # <<>>
              THEN LET b == AABBOf(UNION {FaceVerts(f) : f \in Range(faces)})
                   IN Enlarge(b, Margin(b))
              ELSE LET b == AABBOf({PointPos(q) : q \in Range(points)})
                   IN Enlarge(b, Margin(b))
    /\ UNCHANGED <<window, points, faces, sceneImages, geomFileVars, images,
                   octVars,
                   queueVars, workerVars, bulkVars, recordVars,
                   selectionTimeClick, showVars, camViewID, outVars, clock,
                   fault>>

\* the point list Scene::SetROIFromSelection gathers
SelectedPositions ==
    {PointPos(points[i]) : i \in {j \in selPoints : j <= Len(points)}}
    \cup UNION {FaceVerts(faces[i]) : i \in {j \in selFaces : j <= Len(faces)}}

\* Scene::SetROIFromSelection; in one dimension the oriented box fitted
\* for aabb = FALSE is the same interval as the axis-aligned one
SetROIFromSelection(aabb) ==
    /\ Running
    /\ IsOpen
    /\ hasSelection
    /\ SelectedPositions # {}
    /\ LET b == AABBOf(SelectedPositions) IN obb' = Enlarge(b, Margin(b))
    /\ UNCHANGED <<window, points, faces, sceneImages, geomFileVars, images,
                   octVars,
                   queueVars, workerVars, bulkVars, recordVars,
                   selectionTimeClick, showVars, camViewID, outVars, clock,
                   fault>>

\* ---------------------------------------------------------- pick resolver
\* distance at which ray r meets face f, point p, the camera of MVS image c
\* (0: no intersection)
FaceDist(r, f) == IF r = 1 \/ r = 3 THEN 20 ELSE 0
PointDist(r, p) == IF r = 1 THEN 20 ELSE IF r = 2 THEN 10 * p ELSE 0
CamDist(r, c) ==
    IF r = 1 THEN 20 ELSE IF r = 2 THEN 30 ELSE IF r = 3 THEN 10 ELSE 0
RayPoint(r, d) == 10000 * r + d
CamPos(c) == 5000 + c

\* window.GetRenderer().UploadSelection(window); window.RequestRedraw()
Refresh == {<<"UploadSelection", 0>>, <<"RequestRedraw", 0>>}

NoPick == [idx |-> NO_ID, dist |-> 0]
PickIsValid(pick) == pick.idx # NO_ID
\* the nearest of the elements held by an index; the index it returns is
\* the element's index when the index was built
NearestOf(held, D) ==
    LET cands == {i \in 1..Len(held) : D[held[i]] > 0} IN
    IF cands = {} THEN NoPick
    ELSE LET d == Min({D[held[i]] : i \in cands})
         IN [idx |-> Min({i \in cands : D[held[i]] = d}), dist |-> d]
\* MVS::IntersectRayMesh, MVS::IntersectRayPoints
IntersectRayMesh(oct, ray) ==
    NearestOf(oct.indices, [f \in Range(oct.indices) |-> FaceDist(ray, f)])
IntersectRayPoints(oct, ray) ==
    NearestOf(oct.indices, [q \in Range(oct.indices) |-> PointDist(ray, q)])

\* a variant of the mesh stage that queries the mesh index even when the
\* mesh is not displayed
StageMeshAlways(ray) ==
    LET none == [type |-> "SEL_NA", dist |-> FLT_MAX, idx |-> NO_ID,
                 pts |-> <<ZeroPt, ZeroPt, ZeroPt, ZeroPt>>]
        pick == IntersectRayMesh(octMesh, ray)
    IN IF ~OctIsEmpty(octMesh) /\ PickIsValid(pick)
       THEN [type |-> "SEL_TRIANGLE", dist |-> pick.dist, idx |-> pick.idx,
             pts |-> <<FaceVertex(faces[pick.idx], 1),
                       FaceVertex(faces[pick.idx], 2),
                       FaceVertex(faces[pick.idx], 3),
                       RayPoint(ray, pick.dist)>>]
       ELSE none

\* OnCastRay lines 466-482: the mesh stage
StageMesh(ray) ==
    LET none == [type |-> "SEL_NA", dist |-> FLT_MAX, idx |-> NO_ID,
                 pts |-> <<ZeroPt, ZeroPt, ZeroPt, ZeroPt>>]
        pick == IntersectRayMesh(octMesh, ray)
    IN IF showMesh /\ ~OctIsEmpty(octMesh) /\ PickIsValid(pick)
       THEN [type |-> "SEL_TRIANGLE", dist |-> pick.dist, idx |-> pick.idx,
             pts |-> <<FaceVertex(faces[pick.idx], 1),
                       FaceVertex(faces[pick.idx], 2),
                       FaceVertex(faces[pick.idx], 3),
                       RayPoint(ray, pick.dist)>>]
       ELSE none

\* a variant of the point stage in which a point at the same distance
\* replaces the mesh hit
StagePointsNotStrict(ray, prev) ==
    LET pick == IntersectRayPoints(octPoints, ray) IN
    IF showPointCloud /\ ~OctIsEmpty(octPoints) /\ PickIsValid(pick)
       /\ pick.dist <= prev.dist
    THEN [type |-> "SEL_POINT", dist |-> pick.dist, idx |-> pick.idx,
          pts |-> [prev.pts EXCEPT ![1] = PointPos(points[pick.idx]),
                                   ![4] = PointPos(points[pick.idx])]]
    ELSE prev

\* OnCastRay lines 483-493: the point stage
StagePoints(ray, prev) ==
    LET pick == IntersectRayPoints(octPoints, ray) IN
    IF showPointCloud /\ ~OctIsEmpty(octPoints) /\ PickIsValid(pick)
       /\ pick.dist < prev.dist
    THEN [type |-> "SEL_POINT", dist |-> pick.dist, idx |-> pick.idx,
          pts |-> [prev.pts EXCEPT ![1] = PointPos(points[pick.idx]),
                                   ![4] = PointPos(points[pick.idx])]]
    ELSE prev

\* OnCastRay lines 494-508: the camera stage, over the viewer images in order
StageCameras(ray, prev) ==
    LET F[n \in 0..Len(images)] ==
            IF n = 0 THEN prev
            ELSE LET d == CamDist(ray, images[n].idx) IN
                 IF d > 0 /\ d < F[n-1].dist
                 THEN [type |-> "SEL_CAMERA", dist |-> d, idx |-> n,
                       pts |-> [F[n-1].pts EXCEPT ![1] = CamPos(images[n].idx),
                                                  ![4] = CamPos(images[n].idx)]]
                 ELSE F[n-1]
    IN F[Len(images)]

\* a variant of the clamp without the lower bound
CLAMPFromAbove(v, lo, hi) ==
    IF lo <= hi THEN {IF v > hi THEN hi ELSE v} ELSE {lo, hi}

\* CLAMP(v, lo, hi): v brought into [lo, hi]; when lo > hi there is no such
\* value and the result is one of the two limits
CLAMP(v, lo, hi) ==
    IF lo <= hi THEN {IF v < lo THEN lo ELSE IF v > hi THEN hi ELSE v}
    ELSE {lo, hi}

\* OnCastRay line 485: the thresholds the query of the point index can
\* receive; the query itself is MVS::IntersectRayPoints, whose answer is
\* IntersectRayPoints
PointQueryMinViews == CLAMP(minViews, 1, Len(sceneImages))

\* the invalid access, if any, the resolution of a release makes
ResolveFault(ray, mods) ==
    LET mp == IntersectRayMesh(octMesh, ray)
        pp == IntersectRayPoints(octPoints, ray)
        meshOn == showMesh /\ ~OctIsEmpty(octMesh)
        pointsOn == showPointCloud /\ ~OctIsEmpty(octPoints)
    IN IF meshOn /\ ~OctComplete(octMesh)
       THEN "OnCastRay: octMesh read during Swap"
       ELSE IF meshOn /\ PickIsValid(mp) /\ mp.idx > Len(faces)
       THEN "OnCastRay: mesh.faces[idx] out of range"
       ELSE IF pointsOn /\ ~OctComplete(octPoints)
       THEN "OnCastRay: octPoints read during Swap"
       ELSE IF pointsOn /\ PickIsValid(pp)
               /\ pp.dist < StageMesh(ray).dist /\ pp.idx > Len(points)
       THEN "OnCastRay: pointcloud.points[idx] out of range"
       ELSE LET res == StageCameras(ray, StagePoints(ray, StageMesh(ray)))
                alt == res.type = "SEL_CAMERA" /\ "ALT" \in mods
                typ == IF alt THEN selectionType ELSE res.type
            IN IF typ = "SEL_TRIANGLE" /\ res.idx > Len(faces)
               THEN "OnCastRay: mesh.faces[newSelectionIdx] out of range"
               ELSE IF typ = "SEL_POINT" /\ res.idx > Len(points)
               THEN "OnCastRay: pointViews[newSelectionIdx] out of range"
               ELSE "none"

\* a variant of the refresh test that looks at the new selection only
RefreshIfSelected(prevSelectionType) ==
    IF selectionType' # "SEL_NA" THEN Refresh ELSE {}

\* OnCastRay lines 585-588: refresh when there is or there was a selection
RefreshIf(prevSelectionType) ==
    IF selectionType' # "SEL_NA" \/ prevSelectionType # "SEL_NA"
    THEN Refresh ELSE {}

\* OnCastRay line 510 false: nothing was hit
ResolveNone ==
    /\ selectionType' = "SEL_NA"
    /\ uiOut' = RefreshIf(selectionType)
    /\ UNCHANGED <<selectionIdx, selectionPoints, selectionTime,
                   selectedNeighborCamera, camEffectVars>>

\* a variant of the alt branch that does not restore the kind of the record
ResolveAltKeepingCamera(res) ==
    /\ selectionType' = res.type
    /\ OnSetCameraViewModeBody(res.idx)
    /\ uiOut' = {<<"SetCameraViewMode", res.idx>>}
                  \cup RefreshIf(selectionType)
    /\ UNCHANGED <<selectionIdx, selectionPoints, selectionTime,
                   selectedNeighborCamera>>

\* OnCastRay lines 511-514: a camera with alt held
ResolveAlt(res) ==
    /\ selectionType' = selectionType
    /\ OnSetCameraViewModeBody(res.idx)
    /\ uiOut' = {<<"SetCameraViewMode", res.idx>>}
                  \cup RefreshIf(selectionType)
    /\ UNCHANGED <<selectionIdx, selectionPoints, selectionTime,
                   selectedNeighborCamera>>

\* OnCastRay lines 515-517: a camera with ctrl held
ResolveCtrl(res) ==
    /\ selectionType' = res.type
    /\ selectedNeighborCamera' = res.idx
    /\ uiOut' = RefreshIf(selectionType)
    /\ UNCHANGED <<selectionIdx, selectionPoints, selectionTime,
                   camEffectVars>>

\* a variant of the normal selection that keeps the neighbor camera
ResolveNormalKeepingNeighbor(res, mods) ==
    /\ selectionType' = res.type
    /\ selectionIdx' = res.idx
    /\ selectedNeighborCamera' = selectedNeighborCamera
    /\ selectionPoints' = res.pts
    /\ selectionTime' = clock
    /\ camViewID' = IF res.type = "SEL_CAMERA"
                       /\ mods \cap {"ALT", "CTRL"} = {}
                    THEN NO_ID ELSE camViewID
    /\ uiOut' = RefreshIf(selectionType)
    /\ UNCHANGED <<images, events, nEnqueued, fault>>

\* OnCastRay lines 518-526: the normal selection
ResolveNormal(res, mods) ==
    /\ selectionType' = res.type
    /\ selectionIdx' = res.idx
    /\ selectedNeighborCamera' = NO_ID
    /\ selectionPoints' = res.pts
    /\ selectionTime' = clock
    /\ camViewID' = IF res.type = "SEL_CAMERA"
                       /\ mods \cap {"ALT", "CTRL"} = {}
                    THEN NO_ID ELSE camViewID
    /\ uiOut' = RefreshIf(selectionType)
    /\ UNCHANGED <<images, events, nEnqueued, fault>>

\* OnCastRay lines 464-588: resolve a new pick
Resolve(ray, mods) ==
    LET res == StageCameras(ray, StagePoints(ray, StageMesh(ray))) IN
    IF res.type = "SEL_NA" THEN ResolveNone
    ELSE IF res.type = "SEL_CAMERA" /\ "ALT" \in mods THEN ResolveAlt(res)
    ELSE IF res.type = "SEL_CAMERA" /\ "CTRL" \in mods THEN ResolveCtrl(res)
    ELSE ResolveNormal(res, mods)

\* OnCastRay lines 483-486: a resolved release reaches the query of the
\* point index, the mesh stage having made no invalid access
PointQueryReached(ray, mods) ==
    /\ showPointCloud /\ ~OctIsEmpty(octPoints)
    /\ ResolveFault(ray, mods) \notin
          {"OnCastRay: octMesh read during Swap",
           "OnCastRay: mesh.faces[idx] out of range"}

\* a variant of the long-press test that measures against timeDblClick
IsLongClickByDblClick == clock - selectionTimeClick > timeDblClick

\* OnCastRay line 449: the press lasted longer than a click
IsLongClick == clock - selectionTimeClick > timeClick

\* a variant of the double-click test that also counts a release exactly
\* timeDblClick after the last selection
IsDoubleClickInclusive ==
    selectionType # "SEL_NA" /\ clock - selectionTime <= timeDblClick

\* OnCastRay line 453: the release is a double click on the selection
IsDoubleClick ==
    selectionType # "SEL_NA" /\ clock - selectionTime < timeDblClick

\* a variant of the double action that centres the scene whatever the kind
\* of the selection
DoubleActionCentering ==
    /\ camViewID' = NO_ID
    /\ uiOut' = {<<"OnCenterScene", selectionPoints[4]>>}
    /\ UNCHANGED <<images, events, nEnqueued, fault>>
    /\ selectionTime' = clock
    /\ UNCHANGED <<selectionType, selectionIdx, selectionPoints,
                   selectedNeighborCamera>>

\* OnCastRay lines 454-462: the double action
DoubleAction ==
    /\ IF selectionType = "SEL_CAMERA"
       THEN /\ OnSetCameraViewModeBody(selectionIdx)
            /\ uiOut' = {<<"SetCameraViewMode", selectionIdx>>}
       ELSE /\ camViewID' = NO_ID
            /\ uiOut' = {<<"OnCenterScene", selectionPoints[4]>>}
            /\ UNCHANGED <<images, events, nEnqueued, fault>>
    /\ selectionTime' = clock
    /\ UNCHANGED <<selectionType, selectionIdx, selectionPoints,
                   selectedNeighborCamera>>

\* Scene::OnCastRay; now is glfwGetTime()
OnCastRay(ray, action, mods) ==
    /\ Running
    /\ IsValid
    /\ IF ~IsOpen \/ ~IsOctreeValid
       THEN UNCHANGED <<recordVars, selectionTimeClick, camEffectVars, uiOut>>
       ELSE IF action = "GLFW_PRESS"
       THEN /\ selectionTimeClick' = clock
            /\ uiOut' = {}
            /\ UNCHANGED <<recordVars, camEffectVars>>
       ELSE IF IsLongClick
       THEN /\ uiOut' = {}
            /\ UNCHANGED <<recordVars, selectionTimeClick, camEffectVars>>
       ELSE IF IsDoubleClick
       THEN /\ DoubleAction
            /\ UNCHANGED selectionTimeClick
       ELSE IF ResolveFault(ray, mods) # "none"
       THEN /\ fault' = ResolveFault(ray, mods)
            /\ UNCHANGED <<recordVars, selectionTimeClick, images, events,
                           nEnqueued, camViewID, uiOut>>
       ELSE /\ Resolve(ray, mods)
            /\ UNCHANGED selectionTimeClick
    /\ UNCHANGED <<window, points, faces, sceneImages, geomFileVars, obb,
                   octVars,
                   workerVars, bulkVars, showVars, subScene, sceneBounds,
                   slotCall, saveCall, idxCall, clock>>
    /\ pressTime' = IF action = "GLFW_PRESS" THEN clock ELSE pressTime

\* ------------------------------------------------------------------ save
\* Scene::Save; scaling is whether an image scale in (0,1) was entered,
\* scaled and saved are the results of MVS::Scene::ScaleImages and
\* MVS::Scene::Save
Save(scaling, scaled, saved) ==
    /\ Running
    /\ IsValid
    /\ IF ~IsOpen
       THEN /\ saveCall' = [ret |-> FALSE, points |-> points, faces |-> faces]
            /\ UNCHANGED <<points, faces>>
       ELSE LET takeMesh == faces # <<>> /\ geometryName /\ geometryMesh
                takePoints == points # <<>> /\ geometryName /\ ~geometryMesh
                ret == (scaling => scaled) /\ saved
            IN /\ faces' = IF takeMesh /\ ~ret THEN <<>> ELSE faces
               /\ points' = IF takePoints /\ ~ret THEN <<>> ELSE points
               /\ saveCall' = [ret |-> ret, points |-> points,
                               faces |-> faces]
    /\ UNCHANGED <<window, sceneImages, geomFileVars, images, obb, octVars,
                   queueVars, workerVars, bulkVars, recordVars,
                   selectionTimeClick, showVars, camViewID, uiOut, subScene,
                   sceneBounds, slotCall, pressTime, idxCall, clock,
                   fault>>

\* ------------------------------------------------- MVS to viewer index
\* a variant of the search that starts below the MVS index
ImageIdxMVS2ViewerBelow(idx) ==
    LET Back[i \in 0..Len(images)] ==
            IF i = 0 THEN NO_ID
            ELSE IF images[i].idx = idx THEN i ELSE Back[i-1]
    IN Back[Min({Max({idx - 1, 0}), Len(images)})]

\* Scene::ImageIdxMVS2Viewer: the backward search from position
\* MINF(idx+1, images.size()); the MVS index and the position count from 1
\* here and from 0 in the program, and idx = NO_ID is the index whose
\* successor wraps to 0, so that no position is visited
ImageIdxMVS2Viewer(idx) ==
    LET Back[i \in 0..Len(images)] ==
            IF i = 0 THEN NO_ID
            ELSE IF images[i].idx = idx THEN i ELSE Back[i-1]
    IN Back[Min({idx, Len(images)})]

\* a call of ImageIdxMVS2Viewer by a client of the scene
CallImageIdxMVS2Viewer(idx) ==
    /\ Running
    /\ idxCall' = [op |-> "ImageIdxMVS2Viewer", idx |-> idx,
                   ret |-> ImageIdxMVS2Viewer(idx)]
    /\ UNCHANGED <<window, sceneVars, octVars, queueVars, workerVars,
                   bulkVars, recordVars, selectionTimeClick, showVars,
                   camViewID, uiOut, subScene, sceneBounds, slotCall,
                   saveCall, pressTime, clock, fault>>

\* ------------------------------------------------------------ sub-scenes
\* scene.pointcloud.pointViews: image i is in the view list of point p
Sees(i, p) ==
    \/ i = 1 /\ p <= 3
    \/ i = 2 /\ p <= 2
    \/ i = 3 /\ p \in {2, 4}
PointViews(p) == {i \in 1..Len(sceneImages) : Sees(i, p)}

\* MVS::Scene::SubScene: the sub-scene of the images of the list
SubScene(selectedImageIndices) ==
    [empty |-> FALSE, images |-> selectedImageIndices]

\* imageCounts of Scene::CropToPoints: an entry for each image that is in
\* the view list of a selected point, counting these points
ImageCounts(selectedPointIndices) ==
    [i \in UNION {PointViews(points[k]) : k \in selectedPointIndices} |->
        Cardinality({k \in selectedPointIndices : i \in PointViews(points[k])})]

\* Scene::CropToPoints
CropToPoints(selectedPointIndices, minPoints) ==
    IF sceneImages = <<>> \/ points = <<>>
    THEN EmptyScene
    ELSE LET imageCounts == ImageCounts(selectedPointIndices)
             selectedImageIndices ==
                 {i \in DOMAIN imageCounts : imageCounts[i] >= minPoints}
         IN IF Cardinality(selectedImageIndices) < 2
            THEN EmptyScene
            ELSE IF Cardinality(selectedImageIndices) = Len(sceneImages)
            THEN EmptyScene
            ELSE SubScene(selectedImageIndices)

\* the "Crop Scene" button: CropToPoints on the selected points
CropSceneToSelection(minPoints) ==
    /\ Running
    /\ IsValid
    /\ IF sceneImages # <<>> /\ points # <<>>
          /\ \E k \in selPoints : k > Len(points)
       THEN /\ fault' = "CropToPoints: pointViews[pointIdx] out of range"
            /\ UNCHANGED subScene
       ELSE /\ subScene' = CropToPoints(selPoints, minPoints)
            /\ UNCHANGED fault
    /\ UNCHANGED <<window, sceneVars, octVars, queueVars, workerVars,
                   bulkVars, recordVars, selectionTimeClick, showVars,
                   camViewID, uiOut, sceneBounds, slotCall, saveCall,
                   pressTime, idxCall, clock>>

\* ------------------------------------------------------------ environment
\* window.minViews set in the user interface
SetMinViews(v) ==
    /\ Running
    /\ IsValid
    /\ minViews' = v
    /\ UNCHANGED <<window, sceneVars, octVars, queueVars, workerVars,
                   bulkVars, recordVars, selectionTimeClick, showMesh,
                   showPointCloud, camViewID, outVars, clock, fault>>

ToggleShowMesh ==
    /\ Running
    /\ IsValid
    /\ showMesh' = ~showMesh
    /\ UNCHANGED <<window, sceneVars, octVars, queueVars, workerVars,
                   bulkVars, recordVars, selectionTimeClick, showPointCloud,
                   minViews,
                   camViewID, outVars, clock, fault>>

ToggleShowPointCloud ==
    /\ Running
    /\ IsValid
    /\ showPointCloud' = ~showPointCloud
    /\ UNCHANGED <<window, sceneVars, octVars, queueVars, workerVars,
                   bulkVars, recordVars, selectionTimeClick, showMesh,
                   minViews,
                   camViewID, outVars, clock, fault>>

Tick ==
    /\ Running
    /\ clock < MaxTime
    /\ clock' = clock + 1
    /\ UNCHANGED <<window, sceneVars, octVars, queueVars, workerVars,
                   bulkVars, recordVars, selectionTimeClick, showVars,
                   camViewID, outVars, fault>>

Mods == SUBSET {"ALT", "CTRL"}
Actions == {"GLFW_PRESS", "GLFW_RELEASE"}
FullFile == [ok |-> TRUE, np |-> NPoints, nf |-> NFaces,
             valid |-> [i \in 1..NImages |-> TRUE]]
GeomFile == [ok |-> TRUE, np |-> NPoints, nf |-> NFaces,
             valid |-> [i \in 1..NImages |-> FALSE]]

WorkerOctree ==
    \/ WorkerGetEvent
    \/ OctMeshBuild
    \/ \E m \in Members : OctMeshSwapFirst(m)
    \/ OctMeshSwapRest
    \/ OctPointsBuild
    \/ \E m \in Members : OctPointsSwapFirst(m)
    \/ OctPointsSwapRest

WorkerLoad == \E decoded \in BOOLEAN : LoadImageRun(decoded)

\* the session with its geometry operations and the index rebuilds: one
\* scene without images, clicks without modifiers, the clock at rest
Next ==
       \/ WorkerOctree
       \/ Initialize(GeomFile)
       \/ \E ps \in SUBSET (1..NPoints), fs \in SUBSET (1..NFaces) :
             SetSelection(ps, fs)
       \/ RemoveSelectedGeometry
       \/ CropToBounds
       \/ TogleSceneBox
       \/ \E ray \in {1, 2}, action \in Actions : OnCastRay(ray, action, {})

Spec == Init /\ [][Next]_vars

\* the session with its job queue and image slots: scenes of every kind,
\* camera view mode, deletion, shutdown
NextJobs ==
       \/ WorkerOctree
       \/ WorkerLoad
       \/ \E f \in Files \cup {NoFile} : Initialize(f)
       \/ \E f \in Files : Open(f)
       \/ Release
       \/ \E c \in 1..NImages : OnSetCameraViewMode(c)
       \/ \E i \in 1..NImages : TransferImage(i)
       \/ \E ps \in {{}, {1}}, fs \in {{}, {1}} : SetSelection(ps, fs)
       \/ RemoveSelectedGeometry

SpecJobs == Init /\ [][NextJobs]_vars

\* the worker thread is scheduled: a step of the worker that stays possible
\* is eventually taken
SpecJobsFair == SpecJobs /\ WF_vars(WorkerOctree \/ WorkerLoad)

\* the pick resolver on one scene with points, faces and cameras: every
\* ray, button action and modifier, the display flags and the clock
NextPick ==
       \/ WorkerOctree
       \/ WorkerLoad
       \/ Initialize(FullFile)
       \/ \E ray \in 1..NRays, action \in Actions, mods \in Mods :
             OnCastRay(ray, action, mods)
       \/ ToggleShowMesh \/ ToggleShowPointCloud
       \/ Tick

SpecPick == Init /\ [][NextPick]_vars

\* the region of interest: fitted to the bulk selection, toggled to the
\* scene's bounds, used to crop
NextROI ==
       \/ WorkerOctree
       \/ Initialize(GeomFile)
       \/ \E ps \in SUBSET (1..NPoints), fs \in SUBSET (1..NFaces) :
             SetSelection(ps, fs)
       \/ \E aabb \in BOOLEAN : SetROIFromSelection(aabb)
       \/ TogleSceneBox
       \/ CropToBounds

SpecROI == Init /\ [][NextROI]_vars

\* sub-scene extraction: scenes of NCropPoints points seen by 3 or by
\* NCropImages images, every selection of points and every threshold
CropFiles ==
    {[ok |-> TRUE, np |-> NCropPoints, nf |-> NFaces,
      valid |-> [i \in 1..n |-> TRUE]] : n \in {3, NCropImages}}

NextCrop ==
       \/ WorkerOctree
       \/ \E f \in CropFiles : Initialize(f)
       \/ \E ps \in SUBSET (1..NCropPoints) : SetSelection(ps, {})
       \/ \E minPoints \in 0..MaxMinPoints : CropSceneToSelection(minPoints)

SpecCrop == Init /\ [][NextCrop]_vars

\* the image slots of one open scene: camera view mode, the worker's load
\* jobs and the rendering loop's transfers, in every interleaving
NextSlots ==
       \/ WorkerOctree
       \/ WorkerLoad
       \/ Initialize(FullFile)
       \/ \E c \in 1..NImages : OnSetCameraViewMode(c)
       \/ \E i \in 1..NImages : TransferImage(i)

SpecSlots == Init /\ [][NextSlots]_vars

\* the image slot as a class: its operations called in any order on the
\* slots of one open scene
NextSlotOps ==
       \/ WorkerOctree
       \/ Initialize(FullFile)
       \/ \E i \in 1..NImages : CallSetImageLoading(i)
       \/ \E i \in 1..NImages : CallAssignImage(i)
       \/ \E i \in 1..NImages : CallTransferImage(i)
       \/ \E i \in 1..NImages : CallReleaseImage(i)
       \/ \E i \in 1..NImages : CallRelease(i)

SpecSlotOps == Init /\ [][NextSlotOps]_vars

\* saving: scenes whose geometry is part of the scene file or was loaded
\* from a mesh file or a point-cloud file of its own
SaveFiles ==
    {FullFile,
     [ok |-> TRUE, np |-> NPoints, nf |-> NFaces, geom |-> "mesh",
      valid |-> [i \in 1..NImages |-> TRUE]],
     [ok |-> TRUE, np |-> NPoints, nf |-> NFaces, geom |-> "points",
      valid |-> [i \in 1..NImages |-> FALSE]]}

NextSave ==
       \/ WorkerOctree
       \/ \E f \in SaveFiles : Initialize(f)
       \/ \E f \in SaveFiles : Open(f)
       \/ \E scaling \in BOOLEAN, scaled \in BOOLEAN, saved \in BOOLEAN :
             Save(scaling, scaled, saved)

SpecSave == Init /\ [][NextSave]_vars

\* the index conversion on every list of viewer images Open can build from
\* up to NIdxImages MVS images
IdxFiles ==
    {[ok |-> TRUE, np |-> NPoints, nf |-> NFaces, valid |-> v] :
        v \in UNION {[1..n -> BOOLEAN] : n \in 0..NIdxImages}}
NextIdx ==
       \/ WorkerOctree
       \/ \E f \in IdxFiles : Initialize(f)
       \/ \E f \in IdxFiles : Open(f)
       \/ \E idx \in 0..(NIdxImages + 1) : CallImageIdxMVS2Viewer(idx)

SpecIdx == Init /\ [][NextIdx]_vars

\* point picking in scenes of 0 to NImages images under every threshold
\* from 0 to MaxMinViews: ray 2 hits a point, ray 4 hits nothing
ViewFiles ==
    {[ok |-> TRUE, np |-> NPoints, nf |-> NFaces,
      valid |-> [i \in 1..n |-> TRUE]] : n \in 0..NImages}
NextViews ==
       \/ WorkerOctree
       \/ \E f \in ViewFiles : Initialize(f)
       \/ \E v \in 0..MaxMinViews : SetMinViews(v)
       \/ \E ray \in {2, 4}, action \in Actions : OnCastRay(ray, action, {})

SpecViews == Init /\ [][NextViews]_vars

\* ====================================================================
\* Claims
\* ====================================================================
GeometryChanged == points' # points \/ faces' # faces
\* this step appended a rebuild job to the queue
RebuildEnqueued ==
    /\ Len(events') = Len(events) + 1
    /\ events'[Len(events')].evt.id = "EVT_JOB"
    /\ events'[Len(events')].evt.job = "ComputeOctree"

\* C1: every step that changes the geometry and leaves the scene with
\* geometry (initial load, deletion of selected geometry, crop to the ROI)
\* appends a spatial-index rebuild job to the queue.
C1_RebuildOnEveryGeometryChange ==
    [][(GeometryChanged /\ ~(points' = <<>> /\ faces' = <<>>))
         => RebuildEnqueued]_vars

\* C2: after every step that changes the geometry (deletion of selected
\* geometry, crop with an active ROI) the Selection Record is NONE.
C2_RecordClearedOnMutation ==
    [][GeometryChanged => selectionType' = "SEL_NA"]_vars

\* the release is neither a long press nor a double action: OnCastRay
\* resolves a new pick
ResolvedRelease ==
    /\ IsOpen /\ IsOctreeValid
    /\ ~(clock - selectionTimeClick > timeClick)
    /\ ~(selectionType # "SEL_NA" /\ clock - selectionTime < timeDblClick)
Tentative(ray) == StageCameras(ray, StagePoints(ray, StageMesh(ray)))

\* C3: a resolved release whose nearest hit is a camera, with ctrl held,
\* sets the neighbor-camera index to that camera and leaves the primary
\* Selection Record (kind, index, display points, last selection time) as
\* it was.
C3_CtrlCameraKeepsRecord ==
    [][\A ray \in 1..NRays :
          (/\ ResolvedRelease
           /\ ResolveFault(ray, {"CTRL"}) = "none"
           /\ Tentative(ray).type = "SEL_CAMERA"
           /\ OnCastRay(ray, "GLFW_RELEASE", {"CTRL"}))
          => (/\ selectedNeighborCamera' = Tentative(ray).idx
              /\ UNCHANGED <<selectionType, selectionIdx, selectionPoints,
                             selectionTime>>)]_vars

\* the SHUTDOWN jobs enqueued so far: those waiting in the queue, and the
\* one the worker has taken if it has returned
CloseJobs ==
    Cardinality({i \in 1..Len(events) : events[i].evt.id = "EVT_CLOSE"})
    + (IF wpc = "done" THEN 1 ELSE 0)

\* C4: once a session whose worker thread was started has been released,
\* exactly one SHUTDOWN job has been enqueued and the worker thread has
\* terminated.
C4_ReleaseStopsWorker ==
    (window = "released" /\ wpc # "none") => (wpc = "done" /\ CloseJobs = 1)

\* C5: when a load job's decode fails, the image slot it was loading is
\* EMPTY afterwards.
C5_FailedLoadEmptiesSlot ==
    [][(LoadImageRun(FALSE) /\ wevt.idx <= Len(images))
         => images'[wevt.idx].pImage = "IMG_NULL"]_vars

\* no rebuild job is queued or running when the step starts
WorkerQuiet == wpc = "wait" /\ events = <<>>

C7_NoPartialIndexRead ==
    fault \notin {"OnCastRay: octMesh read during Swap",
                  "OnCastRay: octPoints read during Swap"}

\* C8: a rebuild job builds its indices from the geometry as it was when the
\* job was dispatched.
C8_BuildsFromDispatchSnapshot ==
    [][/\ (OctMeshBuild /\ wevt.snap[2] # <<>>)
            => wOct' = MkOct(wevt.snap[2])
       /\ (OctPointsBuild /\ wevt.snap[1] # <<>>)
            => wOct' = MkOct(wevt.snap[1])]_vars

\* C9: once the queue has drained and the worker is idle, the live indices
\* are the ones built from the final geometry.
C9_DrainedIndexIsCurrent ==
    (fault = "none" /\ IsValid /\ events = <<>> /\ wpc = "wait")
      => (octMesh = MkOct(faces) /\ octPoints = MkOct(points))

\* the enqueue order of the events still in the queue
QueuedOrds == [i \in 1..Len(events) |-> events[i].ord]

\* C10: the worker takes the events in exactly their enqueue order, each
\* once, and none that was not enqueued: what it has taken, followed by what
\* is still queued, is the sequence of all enqueues.
C10_FifoExecution ==
    executed \o QueuedOrds = Iota(nEnqueued)

\* the worker has taken two events while another one waits behind them
C10_Witness ==
    Len(executed) >= 2 /\ events # <<>>

C12_FailureNotFatal ==
    \A n \in 1..MaxJobs :
        [](((n \in Range(QueuedOrds)) /\ wpc # "none")
             => <>(n \in Range(executed) \/ fault # "none"))

\* a load job has failed (its slot is still marked loading although the job
\* is neither queued nor running) and the worker is running a job that it
\* took afterwards
C12_Witness ==
    /\ fault = "none"
    /\ wpc = "oct_mesh" /\ wevt.job = "ComputeOctree"
    /\ \E i \in 1..Len(images) :
          /\ images[i].pImage = "IMG_LOADING"
          /\ \A k \in 1..Len(events) :
                ~(events[k].evt.id = "EVT_JOB"
                  /\ events[k].evt.job = "LoadImage"
                  /\ events[k].evt.idx = i)

\* the candidates of a pick, described without the order of the stages: the
\* mesh hit when the mesh is displayed and indexed, the point hit when the
\* point cloud is displayed and indexed, the cameras whose cone the ray meets
MeshCand(ray) ==
    IF showMesh /\ ~OctIsEmpty(octMesh)
    THEN IntersectRayMesh(octMesh, ray) ELSE NoPick
PointCand(ray) ==
    IF showPointCloud /\ ~OctIsEmpty(octPoints)
    THEN IntersectRayPoints(octPoints, ray) ELSE NoPick
CamCands(ray) == {n \in 1..Len(images) : CamDist(ray, images[n].idx) > 0}
CandDists(ray) ==
    (IF PickIsValid(MeshCand(ray)) THEN {MeshCand(ray).dist} ELSE {})
    \cup (IF PickIsValid(PointCand(ray)) THEN {PointCand(ray).dist} ELSE {})
    \cup {CamDist(ray, images[n].idx) : n \in CamCands(ray)}
\* the selection of kind t and index i is a candidate at distance d
IsCand(ray, t, i, d) ==
    \/ t = "SEL_TRIANGLE" /\ PickIsValid(MeshCand(ray))
         /\ i = MeshCand(ray).idx /\ d = MeshCand(ray).dist
    \/ t = "SEL_POINT" /\ PickIsValid(PointCand(ray))
         /\ i = PointCand(ray).idx /\ d = PointCand(ray).dist
    \/ t = "SEL_CAMERA" /\ i \in CamCands(ray)
         /\ d = CamDist(ray, images[i].idx)
\* a step that can only be a release resolved into a pick without an invalid
\* access: the interactive thread acted on a short release that is no
\* double click, and nothing but the pick's effects changed
ResolvingStep ==
    /\ ResolvedRelease
    /\ fault' = "none"
    /\ UNCHANGED <<wpc, clock, showMesh, showPointCloud, selectionTimeClick>>
\* the step is the resolution of a release on this ray with these modifiers
Resolves(ray, mods) == OnCastRay(ray, "GLFW_RELEASE", mods)

\* C13: among the candidates at the smallest distance the tentative
\* selection is the mesh hit if there is one, else the point hit if there is
\* one, else the first of the cameras in evaluation order; a release without
\* modifiers selects it.
C13_TieBreakPriority ==
    [][(ResolvingStep /\ uiOut' # {}) =>
       \A ray \in 1..NRays, mods \in Mods :
         (Resolves(ray, mods) /\ CandDists(ray) # {}) =>
           LET d == Min(CandDists(ray))
               t == Tentative(ray)
               want ==
                   IF PickIsValid(MeshCand(ray)) /\ MeshCand(ray).dist = d
                   THEN <<"SEL_TRIANGLE", MeshCand(ray).idx>>
                   ELSE IF PickIsValid(PointCand(ray))
                           /\ PointCand(ray).dist = d
                   THEN <<"SEL_POINT", PointCand(ray).idx>>
                   ELSE <<"SEL_CAMERA",
                          Min({n \in CamCands(ray) :
                                 CamDist(ray, images[n].idx) = d})>>
           IN /\ <<t.type, t.idx>> = want
              /\ mods = {} => <<selectionType', selectionIdx'>> = want]_vars

\* a release on the ray that meets a face, a point and the cameras at the
\* same distance, with mesh and points displayed and indexed, has selected
\* the face
C13_Witness ==
    /\ showMesh /\ showPointCloud
    /\ OctComplete(octMesh) /\ ~OctIsEmpty(octMesh)
    /\ OctComplete(octPoints) /\ ~OctIsEmpty(octPoints)
    /\ Len(images) >= 2
    /\ FaceDist(1, 1) = PointDist(1, 1) /\ FaceDist(1, 1) = CamDist(1, 1)
    /\ selectionType = "SEL_TRIANGLE"
    /\ selectionPoints[4] = RayPoint(1, FaceDist(1, 1))

\* C14: the tentative selection of a resolved release is a candidate of the
\* smallest distance among the mesh hit (mesh displayed and indexed), the
\* point hit (points displayed and indexed) and the cone hits of the
\* cameras, and it is NONE exactly when there is no candidate.
C14_NearestCandidate ==
    [][ResolvingStep =>
       \A ray \in 1..NRays, mods \in Mods :
         Resolves(ray, mods) =>
           LET t == Tentative(ray) IN
           IF CandDists(ray) = {}
           THEN t.type = "SEL_NA" /\ selectionType' = "SEL_NA"
           ELSE /\ t.type # "SEL_NA"
                /\ t.dist = Min(CandDists(ray))
                /\ IsCand(ray, t.type, t.idx, t.dist)
                /\ mods = {} => IsCand(ray, selectionType', selectionIdx',
                                       Min(CandDists(ray)))]_vars

\* a camera nearer than the face met by the same ray has been selected while
\* the mesh was displayed and indexed: the record keeps the face's second
\* vertex and has the camera's centre as its focus point
C14_Witness ==
    /\ showMesh /\ OctComplete(octMesh) /\ ~OctIsEmpty(octMesh)
    /\ selectionType = "SEL_CAMERA" /\ selectionIdx = 1
    /\ selectionPoints[2] = FaceVertex(1, 2)
    /\ selectionPoints[4] = CamPos(images[1].idx)

\* a step of the interactive thread on a short release, in a session that
\* answers picks: the worker, the clock, the display flags and the time of
\* the press are as they were
ShortReleaseStep ==
    /\ IsOpen /\ IsOctreeValid
    /\ ~(clock - selectionTimeClick > timeClick)
    /\ UNCHANGED <<wpc, clock, showMesh, showPointCloud, selectionTimeClick>>

\* C15: a short release that arrives while the Selection Record is not NONE
\* and less than timeDblClick after the last selection time is a double
\* action whatever its ray and modifiers: the record's kind, index, points
\* and neighbor stay, the last selection time becomes now, a CAMERA record
\* enters camera view mode on its camera and a POINT or TRIANGLE record
\* issues a centre request on the stored focus point.
C15_DoubleAction ==
    [][(/\ ShortReleaseStep
        /\ selectionType # "SEL_NA"
        /\ clock - selectionTime < timeDblClick) =>
       \A ray \in 1..NRays, mods \in Mods :
         OnCastRay(ray, "GLFW_RELEASE", mods) =>
           /\ UNCHANGED <<selectionType, selectionIdx, selectionPoints,
                          selectedNeighborCamera>>
           /\ selectionTime' = clock
           /\ IF selectionType = "SEL_CAMERA"
              THEN /\ uiOut' = {<<"SetCameraViewMode", selectionIdx>>}
                   /\ selectionIdx \in 1..Len(images)
                        => camViewID' = selectionIdx
              ELSE /\ uiOut' = {<<"OnCenterScene", selectionPoints[4]>>}
                   /\ camViewID' = NO_ID]_vars

\* a double action on a selected point has just issued the centre request
\* on the point's position and updated the last selection time
C15_Witness ==
    /\ selectionType = "SEL_POINT"
    /\ selectionIdx \in 1..Len(points)
    /\ uiOut = {<<"OnCenterScene", PointPos(points[selectionIdx])>>}
    /\ selectionTime = clock /\ clock > 0

\* C16: a short release at least timeDblClick after the last selection time
\* of a Selection Record that is not NONE resolves a fresh pick from its own
\* ray (camera hits with alt or ctrl aside): the record's kind is that of
\* the tentative selection computed from the ray, the indices, the geometry
\* and the display flags, NONE when nothing is hit, and on a hit the index,
\* the points and the time are those of the new pick.
C16_FreshPickAfterWindow ==
    [][(/\ ShortReleaseStep
        /\ fault' = "none"
        /\ selectionType # "SEL_NA"
        /\ clock - selectionTime >= timeDblClick) =>
       \A ray \in 1..NRays, mods \in Mods :
         (/\ OnCastRay(ray, "GLFW_RELEASE", mods)
          /\ ~(Tentative(ray).type = "SEL_CAMERA" /\ mods # {})) =>
           LET t == Tentative(ray) IN
           /\ selectionType' = t.type
           /\ (t.type = "SEL_NA") = (CandDists(ray) = {})
           /\ t.type # "SEL_NA" =>
                /\ selectionIdx' = t.idx
                /\ selectionPoints' = t.pts
                /\ selectionTime' = clock]_vars

\* a pick has just been resolved (the notifications are those of a resolved
\* pick, not of a double action) at a time that is at least timeDblClick
C16_Witness ==
    /\ selectionType # "SEL_NA"
    /\ uiOut = Refresh
    /\ selectionTimeClick = clock
    /\ selectionTime = clock /\ clock >= timeDblClick

\* C16 as stated: after a gap of at least timeDblClick the record a short
\* release leaves is a function of its ray, the geometry and the display
\* flags alone, whatever was picked first. Releases with ctrl held and
\* records with a neighbor camera are left aside here; a camera hit with alt
\* held already restores the first pick.
C16_RecordIndependentOfFirstPick ==
    [][(/\ ShortReleaseStep
        /\ fault' = "none"
        /\ selectionType # "SEL_NA"
        /\ selectedNeighborCamera = NO_ID
        /\ clock - selectionTime >= timeDblClick) =>
       \A ray \in 1..NRays, mods \in {{}, {"ALT"}} :
         OnCastRay(ray, "GLFW_RELEASE", mods) =>
           LET t == Tentative(ray) IN
           /\ selectionType' = t.type
           /\ t.type # "SEL_NA" =>
                /\ selectionIdx' = t.idx
                /\ selectionPoints' = t.pts]_vars

\* C17: a resolved release whose nearest hit is a camera, with alt held,
\* leaves the Selection Record (kind, index, points, last selection time,
\* neighbor index) as it was and, unless the run ended on an invalid access,
\* enters camera view mode on that camera.
C17_AltCameraKeepsRecord ==
    [][(ShortReleaseStep
        /\ ~(selectionType # "SEL_NA"
             /\ clock - selectionTime < timeDblClick)) =>
       \A ray \in 1..NRays, mods \in {m \in Mods : "ALT" \in m} :
         (/\ OnCastRay(ray, "GLFW_RELEASE", mods)
          /\ Tentative(ray).type = "SEL_CAMERA") =>
           /\ UNCHANGED recordVars
           /\ fault' = "none" =>
                /\ <<"SetCameraViewMode", Tentative(ray).idx>> \in uiOut'
                /\ camViewID' = Tentative(ray).idx]_vars

\* camera view mode has just been entered by an alt release while the
\* record is a triangle or a point
C17_Witness ==
    /\ selectionType \in {"SEL_TRIANGLE", "SEL_POINT"}
    /\ camViewID # NO_ID
    /\ <<"SetCameraViewMode", camViewID>> \in uiOut

\* C18: a resolved release with a hit that is not a camera hit with alt or
\* ctrl held replaces the Selection Record by the tentative selection (kind,
\* index, the 4 points), sets the last selection time to now and clears the
\* neighbor-camera index.
C18_RecordReplacedWholesale ==
    [][(ResolvingStep /\ uiOut' # {}) =>
       \A ray \in 1..NRays, mods \in Mods :
         (/\ Resolves(ray, mods)
          /\ Tentative(ray).type # "SEL_NA"
          /\ ~(Tentative(ray).type = "SEL_CAMERA" /\ mods # {})) =>
           /\ selectionType' = Tentative(ray).type
           /\ selectionIdx' = Tentative(ray).idx
           /\ selectionPoints' = Tentative(ray).pts
           /\ selectionTime' = clock
           /\ selectedNeighborCamera' = NO_ID]_vars

\* a point has just been picked after time has passed: the record holds the
\* point, its position as first and focus point, the time of the pick and no
\* neighbor camera
C18_Witness ==
    /\ selectionType = "SEL_POINT"
    /\ selectionIdx \in 1..Len(points)
    /\ selectionPoints = <<PointPos(points[selectionIdx]), ZeroPt, ZeroPt,
                           PointPos(points[selectionIdx])>>
    /\ selectionTime = clock /\ clock > 0
    /\ selectedNeighborCamera = NO_ID
    /\ uiOut = Refresh

\* the bulk selection holds points of a non-empty cloud or faces of a
\* non-empty mesh: RemoveSelectedGeometry removes something
RemovalIsDirty ==
    \/ points # <<>> /\ selPoints # {}
    \/ faces # <<>> /\ selFaces # {}

C20_FittedBoxNeverZeroSize ==
    [][(\E aabb \in BOOLEAN : SetROIFromSelection(aabb))
         => obb'.hi > obb'.lo]_vars

ObservedCount(i) ==
    Cardinality({k \in selPoints : k <= Len(points) /\ Sees(i, points[k])})
Qualifying(minPoints) ==
    {i \in 1..Len(sceneImages) : ObservedCount(i) >= minPoints}

\* C22: CropToPoints returns an empty result exactly when fewer than 2
\* images observe at least minPoints of the selected points or all the
\* images of the scene do, and a sub-scene in every other case.
C22_EmptyIffTooFewOrAll ==
    [][\A minPoints \in 0..MaxMinPoints :
         (CropSceneToSelection(minPoints) /\ fault' = "none") =>
           (subScene'.empty <=>
              \/ Cardinality(Qualifying(minPoints)) < 2
              \/ Cardinality(Qualifying(minPoints)) = Len(sceneImages))]_vars

\* C23: when CropToPoints does not fail, the images of the sub-scene are
\* exactly the images that observe at least minPoints of the selected
\* points, for every threshold from 0, and the scene is left as it was.
C23_SubSceneOfQualifyingImages ==
    [][\A minPoints \in 0..MaxMinPoints :
         (CropSceneToSelection(minPoints) /\ ~subScene'.empty) =>
           /\ subScene'.images = Qualifying(minPoints)
           /\ UNCHANGED <<sceneVars, octVars, bulkVars>>]_vars

\* C24: with no ROI active no step, CropToBounds included, changes the
\* geometry of the open scene; a CropToBounds with an active ROI leaves no
\* point outside the ROI and no face with a vertex outside it, keeps the
\* ROI, and hands the ROI's centre and size to SetSceneBounds.
C24_CropToActiveRoi ==
    [][/\ (IsValid /\ ~IsBounded) => (points' = points /\ faces' = faces)
       /\ CropToBounds =>
            /\ \A p \in Range(points') :
                 obb.lo <= PointPos(p) /\ PointPos(p) <= obb.hi
            /\ \A f \in Range(faces') : \A v \in FaceVerts(f) :
                 obb.lo <= v /\ v <= obb.hi
            /\ obb' = obb
            /\ 2 * sceneBounds'.center = obb.lo + obb.hi
            /\ sceneBounds'.size = obb.hi - obb.lo]_vars

\* a crop to the ROI fitted to the mesh has removed the point outside it
\* and handed the ROI's bounds to SetSceneBounds
C24_Witness ==
    /\ IsBounded
    /\ Len(points) < NPoints /\ faces # <<>>
    /\ \A p \in Range(points) : obb.lo <= PointPos(p) /\ PointPos(p) <= obb.hi
    /\ sceneBounds = [center |-> (obb.lo + obb.hi) \div 2,
                      size |-> obb.hi - obb.lo]

\* the load jobs outstanding for slot i: those waiting in the queue and the
\* one the worker is running
OutstandingLoads(i) ==
    Cardinality({k \in 1..Len(events) :
                    /\ events[k].evt.id = "EVT_JOB"
                    /\ events[k].evt.job = "LoadImage"
                    /\ events[k].evt.idx = i})
    + (IF wpc = "load" /\ wevt.idx = i THEN 1 ELSE 0)

PermittedSlotChanges ==
    {<<"IMG_NULL", "IMG_LOADING">>, <<"IMG_LOADING", "IMG_VALID">>,
     <<"IMG_VALID", "IMG_NULL">>}

\* C26: a step changes the state of an image slot only from EMPTY to
\* LOADING, from LOADING to READY or from READY to EMPTY.
C26_OnlyPermittedSlotChanges ==
    [][\A i \in 1..Len(images) :
          (Len(images') = Len(images)
           /\ images'[i].pImage # images[i].pImage)
          => <<images[i].pImage, images'[i].pImage>>
                \in PermittedSlotChanges]_vars

\* the last slot operation was called on a slot in a state its contract
\* excludes
CalledOutOfContract ==
    \/ slotCall.op = "SetImageLoading" /\ ~IsImageEmpty(slotCall.before)
    \/ slotCall.op = "AssignImage" /\ ~IsImageLoading(slotCall.before)

\* C27: SetImageLoading called on a slot that is not EMPTY, and AssignImage
\* called on a slot that is not LOADING, fail and leave the slot as it was.
C27_CallOutOfContractFails ==
    CalledOutOfContract
    => (fault # "none" /\ images[slotCall.idx] = slotCall.before)

\* C27, as the code has it: such a call either stops the program at the
\* assertion with the slot as it was, or does not fail at all and overwrites
\* the slot: SetImageLoading leaves it LOADING, AssignImage leaves it READY
\* with the new buffer; what the slot held is neither freed nor uploaded.
C27_AssertionStopsOrCallOverwrites ==
    CalledOutOfContract
    => LET b == slotCall.before
           a == images[slotCall.idx]
       IN  \/ fault # "none" /\ a = b
           \/ /\ fault = "none"
              /\ a.freed = b.freed /\ a.taken = b.taken
              /\ a.texture = b.texture
              /\ IF slotCall.op = "SetImageLoading"
                 THEN IsImageLoading(a) /\ a.made = b.made
                 ELSE IsImageValid(a) /\ a.made = b.made + 1

\* SetImageLoading was called on a READY slot and went on: the slot is
\* LOADING and its buffer is gone
C27_Witness ==
    /\ slotCall.op = "SetImageLoading"
    /\ IsImageValid(slotCall.before)
    /\ fault = "none"
    /\ IsImageLoading(images[slotCall.idx])

\* C28: TransferImage on a slot that is not READY returns false and leaves
\* the slot as it was; on a READY slot it uploads the buffer as the slot's
\* texture, returns true and leaves the slot EMPTY, the buffer freed.
C28_TransferOnlyWhenReady ==
    slotCall.op = "TransferImage"
    => LET b == slotCall.before
           a == images[slotCall.idx]
       IN  IF ~IsImageValid(b)
           THEN ~slotCall.ret /\ a = b
           ELSE /\ slotCall.ret
                /\ IsImageEmpty(a)
                /\ a.texture = 1
                /\ a.taken = b.taken + 1
                /\ a.freed = b.freed + 1
                /\ a.made = b.made

\* a transfer took the buffer of a READY slot
C28_Witness ==
    /\ slotCall.op = "TransferImage"
    /\ IsImageValid(slotCall.before)
    /\ slotCall.ret
    /\ IsImageEmpty(images[slotCall.idx])

\* the last slot operation was a release
ReleaseCalled == slotCall.op \in {"ReleaseImage", "Release"}

\* C29: ReleaseImage (and Release, which calls it) on a slot holding a
\* buffer frees the buffer once and leaves the slot EMPTY; called again, on
\* the slot it has just released, it changes nothing and frees nothing.
C29_ReleaseIdempotent ==
    /\ [](ReleaseCalled
          => LET b == slotCall.before
                 a == images[slotCall.idx]
             IN  /\ IsImageValid(b)
                    => IsImageEmpty(a) /\ a.freed = b.freed + 1
                 /\ ~IsImageValid(b)
                    => a.pImage = b.pImage /\ a.freed = b.freed
                 /\ ReleaseImage(a) = a)
    /\ [][(ReleaseCalled /\ slotCall' # slotCall
           /\ slotCall'.op = slotCall.op /\ slotCall'.idx = slotCall.idx)
          => images' = images]_vars

\* a slot holding a buffer was released, and then released again
C29_Witness ==
    /\ slotCall.op = "ReleaseImage"
    /\ IsImageEmpty(slotCall.before)
    /\ slotCall.before.freed = 1 /\ slotCall.before.taken = 0
    /\ images[slotCall.idx] = slotCall.before

\* C30: every buffer AssignImage installed is taken by the rendering loop
\* exactly once: it is in the slot or has been uploaded once and freed
\* once.
C30_EachBufferTakenOnce ==
    \A i \in 1..Len(images) :
        /\ images[i].made
             = images[i].taken + (IF IsImageValid(images[i]) THEN 1 ELSE 0)
        /\ images[i].freed = images[i].taken

\* the accesses of OnCastRay with an index that is not in range of the
\* collection it indexes
PickRangeFaults ==
    {"OnCastRay: mesh.faces[idx] out of range",
     "OnCastRay: pointcloud.points[idx] out of range",
     "OnCastRay: mesh.faces[newSelectionIdx] out of range",
     "OnCastRay: pointViews[newSelectionIdx] out of range"}

\* C31: whatever the geometry changes, rebuilds and picks so far, OnCastRay
\* has indexed the face array, the point array and the per-kind report only
\* with indices in range of the collection indexed.
C31_PickIndicesInRange == fault \notin PickRangeFaults

\* C32: a Selection Record of kind POINT, TRIANGLE or CAMERA stores an index
\* of the current point array, face array or viewer image list.
C32_RecordIndexValid ==
    /\ selectionType = "SEL_POINT" => selectionIdx \in 1..Len(points)
    /\ selectionType = "SEL_TRIANGLE" => selectionIdx \in 1..Len(faces)
    /\ selectionType = "SEL_CAMERA" => selectionIdx \in 1..Len(images)

\* the assertions of the slot operations
SlotAssertionFaults ==
    {"SetImageLoading: ASSERT(IsImageEmpty())",
     "AssignImage: ASSERT(IsImageLoading())"}

\* C33: in every interleaving of OnSetCameraViewMode, load jobs and
\* transfers, no assertion of a slot operation has failed: SetImageLoading
\* was called on EMPTY slots only and AssignImage on LOADING slots only.
C33_SlotAssertionsHold == fault \notin SlotAssertionFaults

\* C34: a load job that was queued or running when the scene was reset or
\* reopened does not touch the image list afterwards: no job indexes the
\* list beyond its end, and a job writes a slot only if the slot is waiting
\* for it (LOADING), which a slot of a repopulated list is not.
C34_NoJobOfReplacedScene ==
    /\ [](fault # "EVTLoadImage: images[idx] out of range")
    /\ [][(wpc = "load" /\ wpc' = "wait" /\ wevt.idx <= Len(images)
           /\ images' # images)
          => IsImageLoading(images[wevt.idx])]_vars

\* C35: a call of Save, whether it returns false or true, leaves the mesh
\* and the point cloud of the scene as they were before the call.
C35_SaveKeepsGeometry ==
    [][saveCall' # saveCall
       => (points' = points /\ faces' = faces)]_vars

\* C36: on a resolved release the selection refresh and the redraw are
\* signalled exactly when the resulting kind of the Selection Record is not
\* NONE or the kind before the release was not NONE; a release that hits
\* nothing sets the kind of the record to NONE.
C36_RefreshIffSelectionInvolved ==
    [][ResolvingStep =>
       \A ray \in 1..NRays, mods \in Mods :
         Resolves(ray, mods) =>
           /\ (Refresh \subseteq uiOut')
                 <=> (selectionType' # "SEL_NA" \/ selectionType # "SEL_NA")
           /\ (Refresh \cap uiOut' # {}) => (Refresh \subseteq uiOut')
           /\ Tentative(ray).type = "SEL_NA" => selectionType' = "SEL_NA"]_vars
\* a release that hit nothing has cleared a selection: the record is NONE,
\* its index is still that of the selection that was, and the refresh and
\* the redraw are signalled
C36_Witness ==
    /\ selectionType = "SEL_NA"
    /\ selectionIdx # NO_ID
    /\ uiOut = Refresh
    /\ fault = "none"

\* a step of the interactive thread while the last press is more than
\* timeClick old
LongAfterPressStep ==
    /\ clock - selectionTimeClick > timeClick
    /\ UNCHANGED <<wpc, clock, showMesh, showPointCloud>>

\* C37: a release that arrives more than timeClick after the recorded time
\* of the press changes nothing: no pick is resolved, the Selection Record,
\* the last selection time and the neighbor index stay, the time of the
\* press and the camera view stay, no job is queued and neither a refresh
\* nor any other request is signalled.
C37_LongReleaseChangesNothing ==
    [][LongAfterPressStep =>
       \A ray \in 1..NRays, mods \in Mods :
         OnCastRay(ray, "GLFW_RELEASE", mods) =>
           /\ UNCHANGED <<selectionType, selectionIdx, selectionPoints,
                          selectionTime, selectedNeighborCamera>>
           /\ UNCHANGED <<selectionTimeClick, camViewID, images, events,
                          fault>>
           /\ uiOut' \in {{}, uiOut}]_vars
\* a selection made after the press stands, the press is more than
\* timeClick old and the last event signalled nothing: that event was a
\* long release
C37_Witness ==
    /\ IsOpen /\ IsOctreeValid
    /\ selectionType # "SEL_NA"
    /\ selectionTime > selectionTimeClick
    /\ clock - selectionTimeClick > timeClick
    /\ uiOut = {}

\* C38: every GLFW_PRESS records the time of the press and changes nothing
\* else: the recorded time is that of the last press delivered, whatever the
\* state of the scene and of its indices when it came, so a release is
\* classified against its own press; and a step that records a press leaves
\* the Selection Record, the last selection time and the neighbor index as
\* they were.
C38_PressRecordsItsTime ==
    /\ [](fault = "none" => selectionTimeClick = pressTime)
    /\ [][pressTime' # pressTime \/ selectionTimeClick' # selectionTimeClick
          => UNCHANGED <<selectionType, selectionIdx, selectionPoints,
                         selectionTime, selectedNeighborCamera>>]_vars

\* the position a search over the whole list finds, NO_ID when none
LinearSearch(idx) ==
    IF \E i \in 1..Len(images) : images[i].idx = idx
    THEN CHOOSE i \in 1..Len(images) : images[i].idx = idx
    ELSE NO_ID
\* the viewer list holds MVS indices in increasing order
ViewerListIncreasing ==
    \A i, j \in 1..Len(images) : i < j => images[i].idx < images[j].idx

\* C39: the viewer list holds the valid MVS images in increasing index
\* order, and for every MVS image index idx ImageIdxMVS2Viewer returns the
\* position i with images[i].idx = idx when that image is in the list and
\* NO_ID otherwise: what a linear search over the whole list returns.
C39_BackwardSearchIsLinearSearch ==
    /\ [](ViewerListIncreasing)
    /\ [][idxCall' # idxCall =>
            /\ idxCall'.ret = LinearSearch(idxCall'.idx)
            /\ idxCall'.ret # NO_ID =>
                  /\ idxCall'.ret \in 1..Len(images)
                  /\ images[idxCall'.ret].idx = idxCall'.idx
            /\ idxCall'.ret = NO_ID =>
                  \A i \in 1..Len(images) :
                     images[i].idx # idxCall'.idx]_vars
\* the image was found below its MVS index, invalid images preceding it, at
\* the last position of the list
C39_Witness ==
    /\ idxCall.op = "ImageIdxMVS2Viewer"
    /\ idxCall.ret # NO_ID
    /\ idxCall.ret < idxCall.idx
    /\ idxCall.ret = Len(images)
    /\ images[idxCall.ret].idx = idxCall.idx

\* a step in which a resolved release queries the point index
PointQueryStep ==
    /\ ResolvedRelease
    /\ UNCHANGED <<wpc, clock, showMesh, showPointCloud, minViews,
                   selectionTimeClick>>
    /\ \E ray \in 1..NRays, mods \in Mods :
          PointQueryReached(ray, mods) /\ Resolves(ray, mods)

\* C40: the minimum-views threshold passed to the point index query lies in
\* [1, total images], for every configured value of the threshold and every
\* number of images in the scene.
C40_MinViewsInRange ==
    [][PointQueryStep =>
         PointQueryMinViews \subseteq 1..Len(sceneImages)]_vars

\* C40 as amended: in a scene with at least one image the threshold passed
\* to the point index query lies in [1, total images] for every configured
\* value: it is the configured value when that lies in the interval, 1 when
\* it is below and the number of images when it is above.
C40_MinViewsInRangeWithImages ==
    [][(PointQueryStep /\ Len(sceneImages) >= 1) =>
         \A k \in PointQueryMinViews :
            /\ k \in 1..Len(sceneImages)
            /\ minViews \in 1..Len(sceneImages) => k = minViews
            /\ minViews < 1 => k = 1
            /\ minViews > Len(sceneImages) => k = Len(sceneImages)]_vars
\* a release has just picked a point in a scene with images while the
\* threshold is configured to 0, below the interval
C40_Witness ==
    /\ IsOpen /\ showPointCloud /\ ~OctIsEmpty(octPoints)
    /\ Len(sceneImages) >= 1
    /\ minViews = 0
    /\ selectionType = "SEL_POINT"
    /\ uiOut = Refresh
    /\ PointQueryMinViews = {1}

====
